---- MODULE Spec2Model ----
(***************************************************************************)
(* Model of connectionpool.py: HTTPConnectionPool (a Queue of connection   *)
(* slots plus two counters) used by several threads, each running urlopen  *)
(* (through get_url / post_url).  The recursion of urlopen is a tail call   *)
(* (every recursive call is "return self.urlopen(...)" and an exception of  *)
(* the inner call is raised in, not caught by, the outer frames), so one    *)
(* frame per thread is kept and a recursive call rewrites its arguments.    *)
(*                                                                         *)
(* Exceptions follow Python >= 3.10, where socket.timeout is TimeoutError   *)
(* and socket.error is OSError: a socket timeout is caught by the first     *)
(* except clause of urlopen, every other OSError by the second.             *)
(***************************************************************************)
EXTENDS Integers, Sequences, FiniteSets, TLC

\* ---------------------------------------------------------------- bounds
NumThreads == 2
MaxSize == 2
MaxRetries == 2
MaxCalls == 2
MaxWorkerRetries == 1
MaxWorkerCalls == 1

Threads == 1..NumThreads

\* ------------------------------------------------------------- constants
\* Python's None: the sentinel pre-seeded in the queue and the unset timeout.
\* Connection objects are numbered from 1, timeouts are positive.
None == 0

RedirectStatuses_short == {301, 302, 303}

\* the statuses urlopen treats as redirects
RedirectStatuses == {301, 302, 303, 307}

\* ------------------------------------------------------------ input sets
Timeouts == {None, 5}
Urls == {"/", "/next"}
Statuses == {200, 302, 303}
\* further statuses, answered only to the single caller of SeqSpec
MoreStatuses == {301, 307}
\* what r.getheaders() can deliver: a list of (name, value) pairs
WireHeaders ==
    { <<>>,
      << <<"location", "/next">> >>,
      << <<"Location", "/next">> >>,
      << <<"location", "/">>, <<"location", "/next">> >> }
WireResponses == [status : Statuses, headers : WireHeaders]

\* ----------------------------------------------------------------- state
VARIABLES
    maxsize, block, timeout,    \* HTTPConnectionPool.__init__ arguments
    pool,                       \* self.pool: the Queue, head first
    num_connections,            \* self.num_connections
    num_requests,               \* self.num_requests
    allocated,                  \* HTTPConnection objects constructed so far
    discarded,                  \* connections dropped by _put_conn on Full
    pc,                         \* per thread: position in urlopen
    method, url, body, headers, retries, redirect,   \* urlopen's arguments
    conn,                       \* urlopen's local conn while it is in use
    response,                   \* urlopen's local response
    tmp,                        \* value read by the "+= 1" in progress
    outcome,                    \* how the thread's latest call ended
    retries0,                   \* retries of the outermost urlopen call
    nexch,                      \* exchanges made by the current call
    got,                        \* what the latest pool.get of the call gave
    last,                       \* how the latest exchange of the call ended,
                                \* and the connection an except clause left
    hops,                       \* the redirect responses the call followed
    calls                       \* calls the thread has made

poolVars == <<maxsize, block, timeout>>
sharedVars == <<pool, num_connections, num_requests, allocated, discarded>>
argVars == <<method, url, body, headers, retries, redirect>>
histVars == <<outcome, retries0, nexch, got, last, hops, calls>>
vars == <<poolVars, sharedVars, pc, argVars, conn, response, tmp, histVars>>

\* ------------------------------------------------------- response object
NoResponse == [status |-> 0, headers |-> <<>>]

RECURSIVE dict(_)
\* dict(pairs): keys as given, the last value of a repeated key wins
dict(pairs) ==
    IF pairs = <<>> THEN <<>>
    ELSE LET n == Len(pairs)
             init == dict(SubSeq(pairs, 1, n - 1))
             k == pairs[n][1]
         IN  [x \in (DOMAIN init) \cup {k} |->
                 IF x = k THEN pairs[n][2] ELSE init[x]]

from_httplib(r) == [status |-> r.status, headers |-> dict(r.headers)]

getheader_miss(resp, name, default) == default

\* HTTPResponse.getheader / headers.get(name, default)
getheader(resp, name, default) ==
    IF name \in DOMAIN resp.headers THEN resp.headers[name] ELSE default

\* ----------------------------------------------------------------- queue
\* Queue.full(): 0 < maxsize <= qsize
Full(q) == maxsize > 0 /\ Len(q) >= maxsize

put_conn_unbounded(q, c) == Append(q, c)

put_conn_dropped(q, c) == q

\* Queue.put(item, block=False) as used by _put_conn: Full is swallowed
put_conn(q, c) == IF Full(q) THEN q ELSE Append(q, c)

get_item_newest(q) == q[Len(q)]

\* Queue.get: the item handed out (first in, first out) and the queue left
\* behind
get_item(q) == Head(q)
get_rest(q) == Tail(q)

\* the pool after __init__
SeededPool(n) == [i \in 1..n |-> None]

Range(q) == {q[i] : i \in DOMAIN q}

\* ---------------------------------------------------------------- outcome
NoOutcome ==
    [kind |-> "none", response |-> NoResponse, timeout |-> None, url |-> ""]
Returned(r) ==
    [kind |-> "response", response |-> r, timeout |-> None, url |-> ""]
MaxRetryError(u) ==
    [kind |-> "MaxRetryError", response |-> NoResponse, timeout |-> None, url |-> u]
\* raise TimeoutError("... %f" % self.timeout): "%f" % None is a TypeError
TimeoutRaise(to) ==
    IF to = None
    THEN [kind |-> "TypeError", response |-> NoResponse, timeout |-> None, url |-> ""]
    ELSE [kind |-> "TimeoutError", response |-> NoResponse, timeout |-> to, url |-> ""]

NoLast == [kind |-> "none", conn |-> None]

\* ------------------------------------------------------------------ Init
Init ==
    /\ maxsize \in 1..MaxSize
    /\ block \in BOOLEAN
    /\ timeout \in Timeouts
    /\ pool = SeededPool(maxsize)
    /\ num_connections = 0
    /\ num_requests = 0
    /\ allocated = 0
    /\ discarded = {}
    /\ pc = [t \in Threads |-> "idle"]
    /\ method = [t \in Threads |-> "GET"]
    /\ url = [t \in Threads |-> "/"]
    /\ body = [t \in Threads |-> "None"]
    /\ headers = [t \in Threads |-> "{}"]
    /\ retries = [t \in Threads |-> 0]
    /\ redirect = [t \in Threads |-> TRUE]
    /\ conn = [t \in Threads |-> None]
    /\ response = [t \in Threads |-> NoResponse]
    /\ tmp = [t \in Threads |-> 0]
    /\ outcome = [t \in Threads |-> NoOutcome]
    /\ retries0 = [t \in Threads |-> 0]
    /\ nexch = [t \in Threads |-> 0]
    /\ got = [t \in Threads |-> "none"]
    /\ last = [t \in Threads |-> NoLast]
    /\ hops = [t \in Threads |-> <<>>]
    /\ calls = [t \in Threads |-> 0]

\* ------------------------------------------------------- urlopen's tests
BudgetExhausted_late(r) == r < -1

\* "if retries < 0: raise MaxRetryError"
BudgetExhausted(r) == r < 0

\* the budget handed to the recursive call: retries - 1
NextRetries(r) == r - 1

WaitsForever_unconditional(q) == q = <<>> /\ timeout = None

\* pool.get(block=self.block, timeout=timeout) on an empty queue waits for
\* ever only when block is set and no timeout is given
WaitsForever(q) == q = <<>> /\ block /\ timeout = None

\* "if redirect and response.status in [301, 302, 303, 307]
\*     and 'location' in response.headers"
ShouldRedirect(rd, resp) ==
    /\ rd
    /\ resp.status \in RedirectStatuses
    /\ "location" \in DOMAIN resp.headers

RedirectMethod_303_get(m, status) == IF status = 303 THEN "GET" ELSE m

\* the method and body handed to the recursive call that follows a redirect:
\* "self.urlopen(method, response.headers.get('location'), body, ...)"
RedirectMethod(m, status) == m
RedirectBody(b, status) == b

AfterTimeout_released(q, c) == put_conn(q, c)

\* what the except clause for TimeoutError does with the used connection:
\* nothing, it stays out of the queue
AfterTimeout(q, c) == q

AfterError_released(q, c) == put_conn(q, c)

\* what the except clause for HTTPException / socket.error does with the
\* used connection: nothing either
AfterError(q, c) == q

\* urlopen's frame is gone once the outermost call has returned or raised
NoArgs(t) ==
    /\ method' = [method EXCEPT ![t] = "GET"]
    /\ url' = [url EXCEPT ![t] = "/"]
    /\ body' = [body EXCEPT ![t] = "None"]
    /\ headers' = [headers EXCEPT ![t] = "{}"]
    /\ retries' = [retries EXCEPT ![t] = 0]
    /\ redirect' = [redirect EXCEPT ![t] = TRUE]

\* ------------------------------------------------------------ public API
BeginCall(t, limit, m, u, b, h, r, rd) ==
    /\ pc[t] = "idle"
    /\ calls[t] < limit
    /\ calls' = [calls EXCEPT ![t] = @ + 1]
    /\ method' = [method EXCEPT ![t] = m]
    /\ url' = [url EXCEPT ![t] = u]
    /\ body' = [body EXCEPT ![t] = b]
    /\ headers' = [headers EXCEPT ![t] = h]
    /\ retries' = [retries EXCEPT ![t] = r]
    /\ redirect' = [redirect EXCEPT ![t] = rd]
    /\ retries0' = [retries0 EXCEPT ![t] = r]
    /\ nexch' = [nexch EXCEPT ![t] = 0]
    /\ got' = [got EXCEPT ![t] = "none"]
    /\ last' = [last EXCEPT ![t] = NoLast]
    /\ hops' = [hops EXCEPT ![t] = <<>>]
    /\ outcome' = [outcome EXCEPT ![t] = NoOutcome]
    /\ pc' = [pc EXCEPT ![t] = "urlopen"]
    /\ UNCHANGED <<poolVars, sharedVars, conn, response, tmp>>

\* get_url(url, fields=None, headers=None, retries, redirect)
get_url(t) ==
    \E u \in Urls, r \in 0..MaxRetries, rd \in BOOLEAN :
        BeginCall(t, MaxCalls, "GET", u, "None", "{}", r, rd)

\* post_url(url, body, headers=None, retries, redirect): body None becomes {}
post_url(t) ==
    \E u \in Urls, b \in {"None", "data"}, r \in 0..MaxRetries, rd \in BOOLEAN :
        BeginCall(t, MaxCalls, "POST", u, IF b = "None" THEN "{}" ELSE b, "{}", r, rd)

\* test.py, make_reqs: a worker thread's "pool.get_url('/')", the retry
\* budget drawn from the bounds
make_reqs(t) ==
    \E r \in 0..MaxWorkerRetries :
        BeginCall(t, MaxWorkerCalls, "GET", "/", "None", "{}", r, TRUE)

\* ---------------------------------------------------------------- urlopen
\* entry of urlopen (first call and every recursive call)
urlopen(t) ==
    /\ pc[t] = "urlopen"
    /\ IF BudgetExhausted(retries[t])
       THEN /\ outcome' = [outcome EXCEPT ![t] = MaxRetryError(url[t])]
            /\ pc' = [pc EXCEPT ![t] = "idle"]
            /\ NoArgs(t)
       ELSE /\ pc' = [pc EXCEPT ![t] = "_get_conn"]
            /\ UNCHANGED <<outcome, argVars>>
    /\ UNCHANGED <<poolVars, sharedVars, conn, response, tmp,
                   retries0, nexch, got, last, hops, calls>>

\* _get_conn: self.pool.get(...); "conn or self._new_conn()"
_get_conn(t) ==
    /\ pc[t] = "_get_conn"
    /\ ~WaitsForever(pool)
    /\ IF pool = <<>>
       THEN \* Empty (at once without block, after the timeout with it) is
            \* swallowed by _get_conn
            /\ got' = [got EXCEPT ![t] = "Empty"]
            /\ pc' = [pc EXCEPT ![t] = "_new_conn"]
            /\ UNCHANGED <<pool, conn>>
       ELSE /\ got' = [got EXCEPT ![t] = "item"]
            /\ pool' = get_rest(pool)
            /\ conn' = [conn EXCEPT ![t] = get_item(pool)]
            /\ pc' = [pc EXCEPT ![t] =
                  IF get_item(pool) = None THEN "_new_conn" ELSE "num_requests"]
    /\ UNCHANGED <<poolVars, num_connections, num_requests, allocated,
                   discarded, argVars, response, tmp, outcome, retries0, nexch,
                   last, hops, calls>>

\* _new_conn, first half of "self.num_connections += 1": the read
_new_conn(t) ==
    /\ pc[t] = "_new_conn"
    /\ tmp' = [tmp EXCEPT ![t] = num_connections]
    /\ pc' = [pc EXCEPT ![t] = "_new_conn_store"]
    /\ UNCHANGED <<poolVars, sharedVars, argVars, conn, response, histVars>>

\* _new_conn, second half: the write, then HTTPConnection(host, port)
_new_conn_store(t) ==
    /\ pc[t] = "_new_conn_store"
    /\ num_connections' = tmp[t] + 1
    /\ allocated' = allocated + 1
    /\ conn' = [conn EXCEPT ![t] = allocated + 1]
    /\ tmp' = [tmp EXCEPT ![t] = 0]
    /\ pc' = [pc EXCEPT ![t] = "num_requests"]
    /\ UNCHANGED <<poolVars, pool, num_requests, discarded, argVars,
                   response, histVars>>

\* first half of "self.num_requests += 1": the read
num_requests_load(t) ==
    /\ pc[t] = "num_requests"
    /\ tmp' = [tmp EXCEPT ![t] = num_requests]
    /\ pc' = [pc EXCEPT ![t] = "num_requests_store"]
    /\ UNCHANGED <<poolVars, sharedVars, argVars, conn, response, histVars>>

\* second half: the write
num_requests_store(t) ==
    /\ pc[t] = "num_requests_store"
    /\ num_requests' = tmp[t] + 1
    /\ tmp' = [tmp EXCEPT ![t] = 0]
    /\ pc' = [pc EXCEPT ![t] = "exchange"]
    /\ UNCHANGED <<poolVars, pool, num_connections, allocated, discarded,
                   argVars, conn, response, histVars>>

\* conn.request(...); conn.sock.settimeout(...); conn.getresponse();
\* HTTPResponse.from_httplib(...): the exchange succeeds with a status of S
ExchangeOk(t, S) ==
    /\ pc[t] = "exchange"
    /\ \E r \in [status : S, headers : WireHeaders] :
          response' = [response EXCEPT ![t] = from_httplib(r)]
    /\ last' = [last EXCEPT ![t] = [kind |-> "ok", conn |-> None]]
    /\ nexch' = [nexch EXCEPT ![t] = @ + 1]
    /\ pc' = [pc EXCEPT ![t] = "_put_conn"]
    /\ UNCHANGED <<poolVars, sharedVars, argVars, conn, tmp, outcome, retries0,
                   got, hops, calls>>

exchange_ok(t) == ExchangeOk(t, Statuses)

exchange_ok_more(t) == ExchangeOk(t, MoreStatuses)

\* the exchange raises TimeoutError (the socket timeout, or ETIMEDOUT from
\* the operating system when no timeout is set):
\* "except (TimeoutError, Empty): raise TimeoutError(... % self.timeout)"
exchange_timeout(t) ==
    /\ pc[t] = "exchange"
    /\ nexch' = [nexch EXCEPT ![t] = @ + 1]
    /\ pool' = AfterTimeout(pool, conn[t])
    /\ conn' = [conn EXCEPT ![t] = None]
    /\ last' = [last EXCEPT ![t] = [kind |-> "timeout", conn |-> conn[t]]]
    /\ outcome' = [outcome EXCEPT ![t] = TimeoutRaise(timeout)]
    /\ pc' = [pc EXCEPT ![t] = "idle"]
    /\ NoArgs(t)
    /\ UNCHANGED <<poolVars, num_connections, num_requests, allocated, discarded,
                   response, tmp, retries0, got, hops, calls>>

\* the exchange raises HTTPException or socket.error:
\* "return self.urlopen(method, url, body, headers, retries - 1, redirect)"
exchange_error(t) ==
    /\ pc[t] = "exchange"
    /\ nexch' = [nexch EXCEPT ![t] = @ + 1]
    /\ pool' = AfterError(pool, conn[t])
    /\ conn' = [conn EXCEPT ![t] = None]
    /\ last' = [last EXCEPT ![t] = [kind |-> "error", conn |-> conn[t]]]
    /\ retries' = [retries EXCEPT ![t] = NextRetries(@)]
    /\ pc' = [pc EXCEPT ![t] = "urlopen"]
    /\ UNCHANGED <<poolVars, num_connections, num_requests, allocated, discarded,
                   method, url, body, headers, redirect, response, tmp, outcome,
                   retries0, got, hops, calls>>

\* the tail of urlopen after a successful exchange:
\* _put_conn(conn) (self.pool.put(conn, block=False); Full only prints), then
\* "Handle redirection": recurse with the location, or return the response
release_classify(t) ==
    /\ pc[t] = "_put_conn"
    /\ pool' = put_conn(pool, conn[t])
    /\ discarded' = IF Full(pool) THEN discarded \cup {conn[t]} ELSE discarded
    /\ conn' = [conn EXCEPT ![t] = None]
    /\ IF ShouldRedirect(redirect[t], response[t])
       THEN /\ url' = [url EXCEPT ![t] = getheader(response[t], "location", "None")]
            /\ retries' = [retries EXCEPT ![t] = NextRetries(@)]
            /\ hops' = [hops EXCEPT ![t] = Append(@, response[t])]
            /\ method' = [method EXCEPT ![t] = RedirectMethod(@, response[t].status)]
            /\ body' = [body EXCEPT ![t] = RedirectBody(@, response[t].status)]
            /\ pc' = [pc EXCEPT ![t] = "urlopen"]
            /\ UNCHANGED <<outcome, headers, redirect>>
       ELSE /\ outcome' = [outcome EXCEPT ![t] = Returned(response[t])]
            /\ pc' = [pc EXCEPT ![t] = "idle"]
            /\ NoArgs(t)
            /\ UNCHANGED hops
    /\ response' = [response EXCEPT ![t] = NoResponse]
    /\ UNCHANGED <<poolVars, num_connections, num_requests, allocated,
                   tmp, retries0, nexch, got, last, calls>>

\* ------------------------------------------------------------------ Next
Step(t) ==
    \/ urlopen(t)
    \/ _get_conn(t)
    \/ _new_conn(t)
    \/ _new_conn_store(t)
    \/ num_requests_load(t)
    \/ num_requests_store(t)
    \/ exchange_ok(t)
    \/ exchange_timeout(t)
    \/ exchange_error(t)
    \/ release_classify(t)

\* test.py: the worker threads of a ThreadPoolExecutor share one pool
Next == \E t \in Threads : make_reqs(t) \/ Step(t)

Spec == Init /\ [][Next]_vars

\* test3.py, requests-with-pool.py: one caller, one call after another,
\* with any arguments
NextSeq == get_url(1) \/ post_url(1) \/ Step(1) \/ exchange_ok_more(1)

SeqSpec == Init /\ [][NextSeq]_vars

\* ================================================================ claims
InCall(t) == pc[t] # "idle"

\* the thread has come out of _get_conn and has not yet released or
\* abandoned what it acquired
Holding(t) ==
    pc[t] \in {"_new_conn", "_new_conn_store", "num_requests",
               "num_requests_store", "exchange", "_put_conn"}

Outstanding == Cardinality({t \in Threads : Holding(t)})

\* positions of an attempt up to and including its exchange
PreExchange ==
    {"urlopen", "_get_conn", "_new_conn", "_new_conn_store", "num_requests",
     "num_requests_store", "exchange"}

\* C1: with block set, the connections acquired and not yet released plus
\* the entries resident in the pool never exceed maxsize.
C1_AtMostN == block => Outstanding + Len(pool) <= maxsize

\* C2: a connection is in use by at most one thread, and a connection that
\* is resident in the pool is in use by none.
C2_Exclusive ==
    \A t \in Threads :
        conn[t] # None =>
            /\ \A u \in Threads \ {t} : conn[u] # conn[t]
            /\ conn[t] \notin Range(pool)

C2_Witness ==
    \E t, u \in Threads :
        /\ t # u
        /\ pc[t] = "exchange" /\ pc[u] = "exchange"
        /\ conn[t] # None /\ conn[u] # None
        /\ nexch[t] = 1 /\ last[t].kind = "ok" /\ got[t] = "item"

\* C3: the pool never holds more than maxsize entries; a release that finds
\* maxsize entries resident raises nothing, leaves the entries as they are
\* and drops the connection.
C3_ReleaseWhenFull ==
    /\ [](Len(pool) <= maxsize)
    /\ [][\A t \in Threads :
            (pc[t] = "_put_conn" /\ pc'[t] # "_put_conn" /\ Len(pool) = maxsize) =>
                /\ pool' = pool
                /\ pc'[t] \in {"urlopen", "idle"}
                /\ outcome'[t].kind \in {"none", "response"}
                /\ conn[t] \in discarded'
                /\ conn[t] \notin Range(pool')]_vars

C3_Witness ==
    /\ discarded # {}
    /\ Len(pool) = maxsize
    /\ \E t \in Threads : outcome[t].kind = "response"

\* C4: with block set and a timeout configured, an acquisition that met the
\* empty pool for the whole timeout ends the call with the timeout error:
\* nothing is created or exchanged for it.
C4_AcquireTimeout ==
    \A t \in Threads :
        (block /\ timeout # None /\ got[t] = "Empty") =>
            /\ pc[t] = "idle"
            /\ outcome[t].kind = "TimeoutError"

\* C5: a call with retries = R makes at most R + 1 exchanges; every exchange
\* that ended in a transport error or a followed redirect took exactly one
\* from the budget; a budget below zero is met only by the raise of
\* MaxRetryError, which ends the call after exactly R + 1 exchanges.
C5_SharedBudget ==
    \A t \in Threads :
        /\ nexch[t] <= retries0[t] + 1
        /\ pc[t] \in PreExchange => retries[t] = retries0[t] - nexch[t]
        /\ pc[t] = "_put_conn" => retries[t] = retries0[t] - (nexch[t] - 1)
        /\ retries[t] < 0 => pc[t] = "urlopen"
        /\ outcome[t].kind = "MaxRetryError" =>
              /\ nexch[t] = retries0[t] + 1
              /\ last[t].kind \in {"error", "ok"}
        /\ (pc[t] = "idle" /\ last[t].kind = "error") =>
              /\ outcome[t].kind = "MaxRetryError"
              /\ nexch[t] = retries0[t] + 1

C5_Witness ==
    \E t \in Threads :
        /\ pc[t] = "idle"
        /\ retries0[t] = 0
        /\ nexch[t] = 1
        /\ last[t].kind = "error"
        /\ outcome[t].kind = "MaxRetryError"

\* C6: after one followed redirect the second attempt goes to the value of
\* the location header with the budget one below the initial one, and a 200
\* answer to it is what the call returns.
C6_RedirectThenOk ==
    /\ [](\A t \in Threads :
            (InCall(t) /\ Len(hops[t]) = 1 /\ nexch[t] \in {1, 2}
                /\ last[t].kind = "ok" /\ (nexch[t] = 2 => pc[t] = "_put_conn")) =>
                /\ hops[t][1].status \in RedirectStatuses
                /\ url[t] = hops[t][1].headers["location"]
                /\ retries[t] = retries0[t] - 1)
    /\ [][\A t \in Threads :
            (pc[t] = "_put_conn" /\ pc'[t] # "_put_conn" /\ Len(hops[t]) = 1
                /\ nexch[t] = 2 /\ response[t].status = 200) =>
                /\ pc'[t] = "idle"
                /\ outcome'[t] = Returned(response[t])]_vars

C6_Witness ==
    \E t \in Threads :
        /\ pc[t] = "idle"
        /\ retries0[t] >= 1
        /\ nexch[t] = 2
        /\ Len(hops[t]) = 1
        /\ hops[t][1].status = 302
        /\ outcome[t].kind = "response"
        /\ outcome[t].response.status = 200

\* C7: without block an acquisition never waits and always yields a
\* connection, no thread inside a call is ever stuck, and a call whose
\* exchanges all succeeded without a redirect raises nothing; the
\* connections created may exceed maxsize.
C7_NonBlocking ==
    ~block =>
        \A t \in Threads :
            /\ pc[t] = "_get_conn" => ENABLED _get_conn(t)
            /\ InCall(t) => ENABLED Step(t)
            /\ pc[t] \in {"num_requests", "num_requests_store", "exchange",
                          "_put_conn"} => conn[t] # None
            /\ outcome[t].kind \notin {"none", "response"} =>
                  (last[t].kind \in {"error", "timeout"} \/ hops[t] # <<>>)

C7_Witness ==
    /\ ~block
    /\ maxsize = 1
    /\ num_connections > maxsize
    /\ \A t \in Threads :
          /\ pc[t] = "idle"
          /\ calls[t] = MaxWorkerCalls
          /\ outcome[t].kind = "response"

\* C8: every call ends: a thread inside a call can always take its next step.
C8_NeverStuck == \A t \in Threads : InCall(t) => ENABLED Step(t)

\* C9: an exchange that timed out ends the call at once (whatever is left of
\* the budget), the connection it used is not in the pool, and on a pool
\* with a timeout configured the error is the timeout error carrying that
\* timeout.
C9_ExchangeTimeout ==
    \A t \in Threads :
        last[t].kind = "timeout" =>
            /\ pc[t] = "idle"
            /\ last[t].conn # None
            /\ last[t].conn \notin Range(pool)
            /\ outcome[t].kind \notin {"none", "response", "MaxRetryError"}
            /\ timeout # None =>
                  /\ outcome[t].kind = "TimeoutError"
                  /\ outcome[t].timeout = timeout

C9_Witness ==
    \E t \in Threads :
        /\ last[t].kind = "timeout"
        /\ timeout # None
        /\ retries0[t] = MaxRetries
        /\ nexch[t] = 1
        /\ outcome[t].kind = "TimeoutError"

\* C10: a call ends in a response, a timeout error or MaxRetryError, and in
\* nothing else.
C10_OutcomeKinds ==
    \A t \in Threads :
        outcome[t].kind \in {"none", "response", "TimeoutError", "MaxRetryError"}

\* C11: an exchange that failed with a transport error leaves the pool as it
\* was, its connection is never resident afterwards, and the retry runs with
\* the same method, url, body and headers and a budget one lower.
C11_ErrorRetry ==
    /\ [](\A t \in Threads :
            last[t].kind = "error" =>
                /\ last[t].conn # None
                /\ last[t].conn \notin Range(pool))
    /\ [][\A t \in Threads :
            (pc[t] = "exchange" /\ pc'[t] = "urlopen") =>
                /\ last'[t].kind = "error"
                /\ pool' = pool
                /\ method'[t] = method[t]
                /\ url'[t] = url[t]
                /\ body'[t] = body[t]
                /\ headers'[t] = headers[t]
                /\ redirect'[t] = redirect[t]
                /\ retries'[t] = retries[t] - 1]_vars

C11_Witness ==
    \E t \in Threads :
        /\ pc[t] = "exchange"
        /\ last[t].kind = "error"
        /\ method[t] = "POST" /\ body[t] = "data" /\ url[t] = "/next"
        /\ retries[t] = retries0[t] - 1
        /\ Len(pool) < maxsize

\* C12: after a successful exchange the call goes on to another attempt
\* exactly when the redirect flag is set, the status is 301, 302, 303 or 307
\* and the response has a location header; otherwise it ends there,
\* returning that response, whatever is left of the budget.
C12_RedirectIff ==
    [][\A t \in Threads :
        (pc[t] = "_put_conn" /\ pc'[t] # "_put_conn") =>
            IF /\ redirect[t]
               /\ response[t].status \in {301, 302, 303, 307}
               /\ "location" \in DOMAIN response[t].headers
            THEN /\ pc'[t] = "urlopen"
                 /\ outcome'[t].kind = "none"
            ELSE /\ pc'[t] = "idle"
                 /\ outcome'[t] = Returned(response[t])
                 /\ nexch'[t] = nexch[t]]_vars

C12_Witness ==
    \E t \in Threads :
        /\ pc[t] = "idle"
        /\ outcome[t].kind = "response"
        /\ outcome[t].response.status = 307
        /\ "location" \in DOMAIN outcome[t].response.headers
        /\ retries0[t] = 0
        /\ nexch[t] = 1

\* C13: between two attempts a call holds no connection, and on a blocking
\* pool of one slot a single caller's chain of followed redirects finds the
\* slot back in the pool at every new attempt: it never meets an empty pool.
C13_ReleasedBeforeNextAttempt ==
    \A t \in Threads :
        /\ pc[t] \in {"idle", "urlopen", "_get_conn"} => conn[t] = None
        /\ (block /\ maxsize = 1 /\ calls[t] = 1 /\ InCall(t)
                /\ Len(hops[t]) = nexch[t]) =>
              /\ got[t] # "Empty"
              /\ pc[t] \in {"urlopen", "_get_conn"} => Len(pool) = 1

C13_Witness ==
    \E t \in Threads :
        /\ block /\ maxsize = 1 /\ timeout = None
        /\ calls[t] = 1
        /\ pc[t] = "exchange"
        /\ nexch[t] = 2 /\ Len(hops[t]) = 2
        /\ got[t] = "item"
        /\ num_connections = 1

\* C14: with block set no release ever finds the pool full: nothing is
\* discarded.
C14_NoDiscardWhenBlocking == block => discarded = {}

\* C15: neither counter ever decreases from one state to the next.
C15_Monotonic ==
    [][/\ num_connections' >= num_connections
       /\ num_requests' >= num_requests]_vars

\* C16: following a redirect changes the url to the location value and
\* takes one from the budget; method, body, headers and the redirect flag
\* are those of the attempt before, for every redirect status.
C16_RedirectFrame ==
    [][\A t \in Threads :
        (pc[t] = "_put_conn" /\ pc'[t] = "urlopen") =>
            /\ url'[t] = response[t].headers["location"]
            /\ retries'[t] = retries[t] - 1
            /\ method'[t] = method[t]
            /\ body'[t] = body[t]
            /\ headers'[t] = headers[t]
            /\ redirect'[t] = redirect[t]]_vars

C16_Witness ==
    \E t \in Threads :
        /\ pc[t] = "exchange"
        /\ Len(hops[t]) = 1 /\ nexch[t] = 1
        /\ hops[t][1].status = 303
        /\ method[t] = "POST" /\ body[t] = "data"
        /\ url[t] = "/next"
        /\ redirect[t]

\* a header name without its letter case
LowerName(k) == IF k = "Location" THEN "location" ELSE k

\* C17: a redirect response is followed whatever letter case its location
\* header name was delivered in.
C17_CaseInsensitive ==
    [][\A t \in Threads :
        (/\ pc[t] = "_put_conn" /\ pc'[t] # "_put_conn"
         /\ redirect[t]
         /\ response[t].status \in RedirectStatuses
         /\ \E k \in DOMAIN response[t].headers : LowerName(k) = "location") =>
            pc'[t] = "urlopen"]_vars

\* C18: with block set, whenever no call is in progress the pool holds
\* maxsize entries.
C18_SlotsConserved ==
    (block /\ \A t \in Threads : pc[t] = "idle") => Len(pool) = maxsize

\* every exchange the thread's first call has made so far succeeded
AllExchangesOk(t) ==
    /\ calls[t] = 1
    /\ \/ Len(hops[t]) = nexch[t]
       \/ Len(hops[t]) = nexch[t] - 1 /\ last[t].kind = "ok"

\* C19: a single caller whose exchanges all succeed never has more than one
\* connection created.
C19_OneConnection ==
    \A t \in Threads : AllExchangesOk(t) => num_connections <= 1

====
